---- MODULE Spec2Model ----
(***************************************************************************)
(* Model of extension/tools/remove-white-background.py: the function       *)
(* remove_white_background(input_path, output_path, threshold) and the     *)
(* __main__ block that calls it.  The Pillow calls the script makes        *)
(* (Image.open, convert, copy, load, seek, tell, info.get, save) are       *)
(* modelled by what the script observes of them.                           *)
(***************************************************************************)
EXTENDS Integers, Sequences, FiniteSets, TLC

\* ---------------------------------------------------------------- bounds
MaxFrames == 3
Width == 2
Height == 2

\* ------------------------------------------------------ program constants
DefaultThreshold == 240
DefaultDuration == 100
DefaultLoop == 0
Transparency == 0
Disposal == 2

InputPath == "corgi-gif-running.gif"
OutputPath == "corgi-running.gif"

\* ------------------------------------------------------------ input sets
\* Representative RGBA pixels: the four pixels of the 2x2 scenario, a pixel
\* with one channel exactly 240, a near-white pixel that is not opaque, and
\* a near-white pixel with three different channels.
PixelSeq ==
  << <<255, 255, 255, 255>>, <<250, 250, 250, 255>>, <<0, 0, 0, 255>>,
     <<200, 200, 200, 255>>, <<241, 241, 240, 128>>, <<241, 241, 241, 128>>,
     <<255, 250, 241, 255>> >>
NPix == Len(PixelSeq)
Thresholds == {0 - 1, DefaultThreshold, 255, 256}
DurationValues == {<<>>, <<80>>, <<120>>}
LoopValues == {<<>>, <<0>>, <<2>>}
\* (format, mode) pairs Image.open can hand back: a GIF opens in palette
\* mode, the other containers in RGBA, RGB or palette mode.
FormatModes == {<<"GIF", "P">>, <<"PNG", "RGBA">>, <<"PNG", "RGB">>, <<"PNG", "P">>}

Coords == (0 .. Width - 1) \X (0 .. Height - 1)

\* ------------------------------------------------- the image file on disk
\* RGBA value stored at frame i (0-based), coordinate c of the file `seed`.
SrcPixel(seed, i, c) ==
  PixelSeq[((seed + i * Width * Height + c[2] * Width + c[1]) % NPix) + 1]

\* Palette of a mode-P file: colour k is the r,g,b of PixelSeq[k].
Palette == [k \in 1 .. NPix |-> SubSeq(PixelSeq[k], 1, 3)]

\* Raw sample stored for a pixel in the given mode.
RawPixel(mode, seed, i, c) ==
  IF mode = "RGBA" THEN SrcPixel(seed, i, c)
  ELSE IF mode = "RGB" THEN SubSeq(SrcPixel(seed, i, c), 1, 3)
  ELSE << ((seed + i * Width * Height + c[2] * Width + c[1]) % NPix) + 1 >>

RawFrame(mode, seed, i) ==
  [mode |-> mode, px |-> [c \in Coords |-> RawPixel(mode, seed, i, c)]]

Files ==
  { [exists |-> TRUE, format |-> fm[1], mode |-> fm[2], n |-> Len(d),
     seed |-> s, dur |-> d, loop |-> l] :
      fm \in FormatModes, s \in 0 .. NPix - 1, l \in LoopValues,
      d \in UNION { [1 .. n -> DurationValues] : n \in 1 .. MaxFrames } }
  \cup
  { [exists |-> FALSE, format |-> "GIF", mode |-> "P", n |-> 1,
     seed |-> 0, dur |-> << <<>> >>, loop |-> <<>>] }

\* ------------------------------------------------------- Pillow behaviour
\* Image.convert('RGBA') on one pixel: RGB gets an opaque alpha, a palette
\* index is looked up and gets an opaque alpha, RGBA is kept.
PixelToRGBA(mode, p) ==
  IF mode = "RGBA" THEN p
  ELSE IF mode = "RGB" THEN p \o <<255>>
  ELSE Palette[p[1]] \o <<255>>

FrameToRGBA(f) ==
  [mode |-> "RGBA", px |-> [c \in Coords |-> PixelToRGBA(f.mode, f.px[c])]]

\* Image.open(input_path): a file-backed image positioned on frame 0.
OpenImage(f) ==
  [format |-> <<f.format>>, mode |-> f.mode, pos |-> 0,
   data |-> [i \in 1 .. f.n |-> RawFrame(f.mode, f.seed, i - 1)],
   dur |-> f.dur, loop |-> f.loop]

\* img.convert('RGBA'): a new in-memory image holding the CURRENT frame only,
\* with a copy of the current info dictionary; it has no format and one frame.
ConvertImage(im) ==
  [format |-> <<>>, mode |-> "RGBA", pos |-> 0,
   data |-> << FrameToRGBA(im.data[im.pos + 1]) >>,
   dur |-> << im.dur[im.pos + 1] >>, loop |-> im.loop]

\* img.seek(k) succeeds iff frame k exists, otherwise it raises EOFError.
CanSeek(im, k) == k >= 0 /\ k < Len(im.data)

\* dict.get(key, default) on an entry that is present (<<v>>) or absent (<<>>).
InfoGet(entry, default) == IF entry = <<>> THEN default ELSE entry[1]

\* ------------------------------------------------------ the pixel transform
\* line 46
IsWhite_alpha(p, t) == p[1] > t /\ p[2] > t /\ p[3] > t /\ p[4] > t
IsWhite_ge(p, t) == p[1] >= t /\ p[2] >= t /\ p[3] >= t
IsWhite_clamped(p, t) ==
  LET u == IF t < 0 THEN 0 ELSE IF t > 255 THEN 255 ELSE t
  IN  p[1] > u /\ p[2] > u /\ p[3] > u
IsWhite(p, t) == p[1] > t /\ p[2] > t /\ p[3] > t

\* line 47
Transparent_bgr(p) == <<p[3], p[2], p[1], 0>>
Transparent(p) == <<p[1], p[2], p[3], 0>>

\* lines 42-47 for one pixel
PixelStep(p, t) == IF IsWhite(p, t) THEN Transparent(p) ELSE p

\* lines 42-47 for a frame
MakeTransparent(f, t) ==
  [mode |-> f.mode, px |-> [c \in Coords |-> PixelStep(f.px[c], t)]]

\* ------------------------------------------------------------- the output
WarnLine(path, fmt) == [tag |-> "warning", path |-> path, msg |-> fmt]
ErrorLine(path, msg) == [tag |-> "error", path |-> path, msg |-> msg]
SuccessLines(inp, outp) ==
  << [tag |-> "success", path |-> inp, msg |-> ""],
     [tag |-> "saved", path |-> outp, msg |-> ""] >>
NotFoundLine(path) == [tag |-> "notfound", path |-> path, msg |-> ""]

\* lines 19-20
FormatWarnings_none(im, path) == <<>>
FormatWarnings(im, path) ==
  IF im.format # <<"GIF">> THEN << WarnLine(path, im.format) >> ELSE <<>>

\* line 57
IsAnimated(fs) == Len(fs) > 1

\* lines 69-77 and line 80: the keyword arguments of the save call
SaveArgs_keep(fs, ds, im, outp) ==
  IF IsAnimated(fs)
  THEN [path |-> outp, first |-> fs[1], save_all |-> TRUE,
        append_images |-> Tail(fs),
        duration |-> << IF ds # <<>> THEN ds ELSE [i \in 1 .. Len(fs) |-> DefaultDuration] >>,
        loop |-> << InfoGet(im.loop, DefaultLoop) >>,
        transparency |-> Transparency, disposal |-> << 1 >>]
  ELSE [path |-> outp, first |-> fs[1], save_all |-> FALSE,
        append_images |-> <<>>, duration |-> <<>>, loop |-> <<>>,
        transparency |-> Transparency, disposal |-> <<>>]
SaveArgs(fs, ds, im, outp) ==
  IF IsAnimated(fs)
  THEN [path |-> outp, first |-> fs[1], save_all |-> TRUE,
        append_images |-> Tail(fs),
        duration |-> << IF ds # <<>> THEN ds ELSE [i \in 1 .. Len(fs) |-> DefaultDuration] >>,
        loop |-> << InfoGet(im.loop, DefaultLoop) >>,
        transparency |-> Transparency, disposal |-> << Disposal >>]
  ELSE [path |-> outp, first |-> fs[1], save_all |-> FALSE,
        append_images |-> <<>>, duration |-> <<>>, loop |-> <<>>,
        transparency |-> Transparency, disposal |-> <<>>]

\* The frames an encoder receives from a save call, in order.
WrittenFrames(s) == <<s.first>> \o s.append_images

\* line 53 and line 65: the inner handlers catch EOFError only
InnerCatches_all(kind) == TRUE
InnerCatches(kind) == kind = "EOFError"

\* line 102
ExitCode_zero(success) == 0
ExitCode(success) == IF success THEN 0 ELSE 1

\* ------------------------------------------------------------------ state
VARIABLES
  entry,      \* "main": run as a script; "call": the function called directly
  file,       \* the file at input_path
  threshold,  \* the threshold argument
  pc,         \* position in the script
  img,        \* <<>> or <<the image bound to img>>
  frame,      \* <<>> or <<the frame being processed>>
  frames,     \* the list frames
  durations,  \* the list durations
  loaded,     \* history: each frame as pixels = frame.load() returned it
  saved,      \* history: the arguments of each save call that completed
  out,        \* lines printed to standard output
  raised,     \* history: exceptions raised inside the function's try block
  result,     \* <<>> or <<the value returned>>
  dirMade,    \* os.makedirs has been called and returned
  exitCode    \* <<>> or <<the process exit code>>

vars == <<entry, file, threshold, pc, img, frame, frames, durations, loaded,
          saved, out, raised, result, dirMade, exitCode>>

Init ==
  /\ entry \in {"main", "call"}
  /\ file \in Files
  /\ threshold \in (IF entry = "main" THEN {DefaultThreshold} ELSE Thresholds)
  /\ pc = IF entry = "main" THEN "main_exists" ELSE "open"
  /\ img = <<>>
  /\ frame = <<>>
  /\ frames = <<>>
  /\ durations = <<>>
  /\ loaded = <<>>
  /\ saved = <<>>
  /\ out = <<>>
  /\ raised = <<>>
  /\ result = <<>>
  /\ dirMade = FALSE
  /\ exitCode = <<>>

\* lines 86-88: the outer handler prints one line and returns False
Caught(step, kind) ==
  /\ raised' = Append(raised, [step |-> step, kind |-> kind, inner |-> FALSE])
  /\ out' = Append(out, ErrorLine(InputPath, kind))
  /\ result' = <<FALSE>>
  /\ pc' = "returned"

\* An exception raised inside one of the two inner try blocks (lines 28-54,
\* 60-66): an EOFError ends the loop, anything else reaches the outer handler.
RaisedInLoop(step, kind, next) ==
  IF InnerCatches(kind)
  THEN /\ raised' = Append(raised, [step |-> step, kind |-> kind, inner |-> TRUE])
       /\ pc' = next
       /\ UNCHANGED <<out, result>>
  ELSE Caught(step, kind)

\* line 16
Open ==
  /\ pc = "open"
  /\ \E ok \in BOOLEAN :
       IF file.exists /\ ok
       THEN /\ img' = << OpenImage(file) >>
            /\ pc' = "format"
            /\ UNCHANGED <<raised, out, result>>
       ELSE /\ Caught("open", "OSError")
            /\ UNCHANGED img
  /\ UNCHANGED <<entry, file, threshold, frame, frames, durations, loaded,
                 saved, dirMade, exitCode>>

\* lines 19-20
CheckFormat ==
  /\ pc = "format"
  /\ out' = out \o FormatWarnings(img[1], InputPath)
  /\ pc' = "mode"
  /\ UNCHANGED <<entry, file, threshold, img, frame, frames, durations,
                 loaded, saved, raised, result, dirMade, exitCode>>

\* lines 23-27
CheckMode ==
  /\ pc = "mode"
  /\ IF img[1].mode # "RGBA"
     THEN \E ok \in BOOLEAN :
            IF ok
            THEN /\ img' = << ConvertImage(img[1]) >>
                 /\ pc' = "copy"
                 /\ UNCHANGED <<raised, out, result>>
            ELSE /\ Caught("convert", "OSError")
                 /\ UNCHANGED img
     ELSE /\ pc' = "copy"
          /\ UNCHANGED <<img, raised, out, result>>
  /\ frames' = <<>>
  /\ UNCHANGED <<entry, file, threshold, frame, durations, loaded, saved,
                 dirMade, exitCode>>

\* lines 31-39
CopyFrame ==
  /\ pc = "copy"
  /\ \E ok \in BOOLEAN :
       IF ok
       THEN LET cp == img[1].data[img[1].pos + 1]
                f == IF cp.mode # "RGBA" THEN FrameToRGBA(cp) ELSE cp
            IN  /\ frame' = <<f>>
                /\ loaded' = Append(loaded, f)
                /\ pc' = "pixels"
                /\ UNCHANGED <<raised, out, result>>
       ELSE /\ RaisedInLoop("copy", "OSError", "branch")
            /\ UNCHANGED <<frame, loaded>>
  /\ UNCHANGED <<entry, file, threshold, img, frames, durations, saved,
                 dirMade, exitCode>>

\* lines 42-49
ProcessPixels ==
  /\ pc = "pixels"
  /\ LET f == MakeTransparent(frame[1], threshold)
     IN  /\ frame' = <<f>>
         /\ frames' = Append(frames, f)
  /\ pc' = "seek"
  /\ UNCHANGED <<entry, file, threshold, img, durations, loaded, saved, out,
                 raised, result, dirMade, exitCode>>

\* lines 52-54
SeekNext ==
  /\ pc = "seek"
  /\ IF CanSeek(img[1], img[1].pos + 1)
     THEN \E ok \in BOOLEAN :
            IF ok
            THEN /\ img' = << [img[1] EXCEPT !.pos = @ + 1] >>
                 /\ pc' = "copy"
                 /\ UNCHANGED <<raised, out, result>>
            ELSE /\ RaisedInLoop("seek", "OSError", "branch")
                 /\ UNCHANGED img
     ELSE /\ RaisedInLoop("seek", "EOFError", "branch")
          /\ UNCHANGED img
  /\ UNCHANGED <<entry, file, threshold, frame, frames, durations, loaded,
                 saved, dirMade, exitCode>>

\* lines 57-61
Branch ==
  /\ pc = "branch"
  /\ IF IsAnimated(frames)
     THEN /\ durations' = <<>>
          /\ img' = << [img[1] EXCEPT !.pos = 0] >>
          /\ pc' = "durations"
     ELSE /\ pc' = "save"
          /\ UNCHANGED <<durations, img>>
  /\ UNCHANGED <<entry, file, threshold, frame, frames, loaded, saved, out,
                 raised, result, dirMade, exitCode>>

\* lines 62-66
ReadDuration ==
  /\ pc = "durations"
  /\ durations' = Append(durations, InfoGet(img[1].dur[img[1].pos + 1], DefaultDuration))
  /\ IF CanSeek(img[1], img[1].pos + 1)
     THEN \E ok \in BOOLEAN :
            IF ok
            THEN /\ img' = << [img[1] EXCEPT !.pos = @ + 1] >>
                 /\ pc' = "durations"
                 /\ UNCHANGED <<raised, out, result>>
            ELSE /\ RaisedInLoop("reseek", "OSError", "save")
                 /\ UNCHANGED img
     ELSE /\ RaisedInLoop("reseek", "EOFError", "save")
          /\ UNCHANGED img
  /\ UNCHANGED <<entry, file, threshold, frame, frames, loaded, saved,
                 dirMade, exitCode>>

\* lines 69-84
Save ==
  /\ pc = "save"
  /\ IF frames = <<>>
     THEN /\ Caught("save", "IndexError")
          /\ UNCHANGED saved
     ELSE \E ok \in BOOLEAN :
            IF ok
            THEN /\ saved' = Append(saved, SaveArgs(frames, durations, img[1], OutputPath))
                 /\ out' = out \o SuccessLines(InputPath, OutputPath)
                 /\ result' = <<TRUE>>
                 /\ pc' = "returned"
                 /\ UNCHANGED raised
            ELSE /\ Caught("save", "OSError")
                 /\ UNCHANGED saved
  /\ UNCHANGED <<entry, file, threshold, img, frame, frames, durations,
                 loaded, dirMade, exitCode>>

\* lines 94-96
MainExists ==
  /\ pc = "main_exists"
  /\ IF file.exists
     THEN /\ pc' = "main_makedirs"
          /\ UNCHANGED <<out, exitCode>>
     ELSE /\ out' = Append(out, NotFoundLine(InputPath))
          /\ exitCode' = <<1>>
          /\ pc' = "exited"
  /\ UNCHANGED <<entry, file, threshold, img, frame, frames, durations,
                 loaded, saved, raised, result, dirMade>>

\* lines 99-101: os.makedirs either returns, and the function is called, or
\* raises, and the uncaught exception ends the process with status 1
MainMakedirs ==
  /\ pc = "main_makedirs"
  /\ \E ok \in BOOLEAN :
       IF ok
       THEN /\ dirMade' = TRUE
            /\ pc' = "open"
            /\ UNCHANGED exitCode
       ELSE /\ exitCode' = <<1>>
            /\ pc' = "exited"
            /\ UNCHANGED dirMade
  /\ UNCHANGED <<entry, file, threshold, img, frame, frames, durations,
                 loaded, saved, out, raised, result>>

\* lines 101-102
MainExit ==
  /\ pc = "returned"
  /\ entry = "main"
  /\ exitCode' = << ExitCode(result[1]) >>
  /\ pc' = "exited"
  /\ UNCHANGED <<entry, file, threshold, img, frame, frames, durations,
                 loaded, saved, out, raised, result, dirMade>>

Next ==
  \/ Open
  \/ CheckFormat
  \/ CheckMode
  \/ CopyFrame
  \/ ProcessPixels
  \/ SeekNext
  \/ Branch
  \/ ReadDuration
  \/ Save
  \/ MainExists
  \/ MainMakedirs
  \/ MainExit

Spec == Init /\ [][Next]_vars

\* ------------------------------------------------------------ properties
Lines(tag) == {k \in 1 .. Len(out) : out[k].tag = tag}

\* Exceptions that are not the EOFError by which a seek ends a loop.
Failures ==
  {k \in 1 .. Len(raised) :
     ~(raised[k].kind = "EOFError" /\ raised[k].step \in {"seek", "reseek"})}

\* The frames handed to the encoder by the save calls made so far.
AllWritten == IF saved = <<>> THEN <<>> ELSE WrittenFrames(saved[1])

\* Frame i (1-based) of the file as an RGBA frame.
InputFrame(i) == FrameToRGBA(RawFrame(file.mode, file.seed, i - 1))

\* C1: in every collected and every written frame, a pixel whose input r, g
\* and b all exceed the threshold, whatever its alpha, is (r, g, b, 0).
C1_WhiteBecomesTransparent ==
  /\ \A i \in 1 .. Len(frames) : \A c \in Coords :
       LET p == loaded[i].px[c]
       IN  (p[1] > threshold /\ p[2] > threshold /\ p[3] > threshold)
             => frames[i].px[c] = <<p[1], p[2], p[3], 0>>
  /\ \A i \in 1 .. Len(AllWritten) : \A c \in Coords :
       LET p == loaded[i].px[c]
       IN  (p[1] > threshold /\ p[2] > threshold /\ p[3] > threshold)
             => AllWritten[i].px[c] = <<p[1], p[2], p[3], 0>>

C1_Witness ==
  /\ threshold = 240
  /\ saved # <<>>
  /\ \E c \in Coords : /\ loaded[1].px[c] = <<250, 250, 250, 255>>
                       /\ AllWritten[1].px[c] = <<250, 250, 250, 0>>
  /\ \E c \in Coords : /\ loaded[1].px[c] = <<241, 241, 241, 128>>
                       /\ AllWritten[1].px[c] = <<241, 241, 241, 0>>

\* C2: in every collected frame, a pixel with at least one of r, g, b at or
\* below the threshold keeps all four channels.
C2_OthersUnchanged ==
  \A i \in 1 .. Len(frames) : \A c \in Coords :
    LET p == loaded[i].px[c]
    IN  (p[1] <= threshold \/ p[2] <= threshold \/ p[3] <= threshold)
          => frames[i].px[c] = p

C2_Witness ==
  /\ threshold = 240
  /\ frames # <<>>
  /\ \E c \in Coords : /\ loaded[1].px[c] = <<241, 241, 240, 128>>
                       /\ frames[1].px[c] = <<241, 241, 240, 128>>
  /\ \E c \in Coords : /\ loaded[1].px[c] = <<200, 200, 200, 255>>
                       /\ frames[1].px[c] = <<200, 200, 200, 255>>

\* C3 as stated: a successful run writes exactly as many frames as the input
\* has, frame i being the transform of input frame i, whatever the mode of
\* the opened image.
C3_FrameCountPreserved ==
  result = <<TRUE>> =>
    /\ Len(AllWritten) = file.n
    /\ \A i \in 1 .. Len(AllWritten) : \A c \in Coords :
         LET p == InputFrame(i).px[c]
         IN  AllWritten[i].px[c] =
               IF p[1] > threshold /\ p[2] > threshold /\ p[3] > threshold
               THEN <<p[1], p[2], p[3], 0>> ELSE p

\* C4 as stated: a successful run on an input of N > 1 frames passes N
\* durations to the encoder, entry i being the source's or 100.
C4_DurationsPreserved ==
  (result = <<TRUE>> /\ file.n > 1) =>
    saved[1].duration =
      << [i \in 1 .. file.n |-> IF file.dur[i] = <<>> THEN 100 ELSE file.dur[i][1]] >>

\* C5: applying the pixel transform to a transformed frame, with the same
\* threshold, gives that frame back.
C5_Idempotent ==
  \A i \in 1 .. Len(frames) : MakeTransparent(frames[i], threshold) = frames[i]

C5_Witness ==
  /\ frames # <<>>
  /\ frames[1] # loaded[1]
  /\ \E c \in Coords : frames[1].px[c] = <<255, 250, 241, 0>>

\* C6 as stated: once the function has returned, any exception raised in it
\* means one error line, no success line and the value False.
C6_AnyExceptionFails ==
  (pc \in {"returned", "exited"} /\ raised # <<>>) =>
    /\ result = <<FALSE>>
    /\ Cardinality(Lines("error")) = 1
    /\ Lines("success") = {}

\* C6 amended: any exception other than the EOFError by which a seek ends the
\* frame loop or the duration loop is caught by the function, which prints
\* exactly one error line with the input path and the message, prints no
\* success line and returns False; True is returned only after the save call
\* completed, and False only after such an exception.
C6_FailuresAreCaught ==
  /\ Failures # {} =>
       /\ pc \in {"returned", "exited"}
       /\ result = <<FALSE>>
       /\ Cardinality(Failures) = 1
       /\ \E k \in Failures :
            \A j \in 1 .. Len(out) :
              out[j].tag = "error" <=>
                (j = Len(out) /\ out[j] = ErrorLine(InputPath, raised[k].kind))
       /\ Lines("error") # {}
       /\ Lines("success") = {}
  /\ result = <<TRUE>> => (Len(saved) = 1 /\ Failures = {})
  /\ result = <<FALSE>> => Failures # {}

C6_Witness ==
  /\ result = <<FALSE>>
  /\ pc = "returned"
  /\ \E k \in 1 .. Len(raised) : raised[k].step = "reseek" /\ raised[k].kind = "OSError"
  /\ Cardinality(Lines("error")) = 1
  /\ Len(frames) = 3

\* C7: run as a script, a missing input gives the not-found line and exit
\* code 1 with no directory made, no decode and no write, the function never
\* being entered; with the input present the exit code is 0 exactly when the
\* function returned True, and 1 when it returned False.
C7_MainExit ==
  entry = "main" =>
    /\ ~file.exists =>
         /\ pc \in {"main_exists", "exited"}
         /\ ~dirMade /\ img = <<>> /\ raised = <<>> /\ saved = <<>> /\ result = <<>>
         /\ pc = "exited" => (exitCode = <<1>> /\ out = << NotFoundLine(InputPath) >>)
    /\ (file.exists /\ pc = "exited") =>
         /\ exitCode = <<0>> <=> result = <<TRUE>>
         /\ result = <<FALSE>> => exitCode = <<1>>
         /\ exitCode \in {<<0>>, <<1>>}
    /\ pc # "exited" => exitCode = <<>>

C7_Witness ==
  /\ entry = "main"
  /\ ~file.exists
  /\ pc = "exited"
  /\ exitCode = <<1>>

\* C8: the save call has the single-frame form when one frame was collected
\* and the animated form, with all frames in order, the collected durations,
\* the source's loop count (0 when absent), transparency 0 and disposal 2,
\* when more than one was.
C8_EncodeForm ==
  saved # <<>> =>
    /\ Len(saved) = 1
    /\ saved[1].path = OutputPath
    /\ saved[1].transparency = 0
    /\ WrittenFrames(saved[1]) = frames
    /\ IF Len(frames) = 1
       THEN /\ saved[1].save_all = FALSE
            /\ saved[1].duration = <<>>
            /\ saved[1].loop = <<>>
            /\ saved[1].disposal = <<>>
       ELSE /\ Len(frames) > 1
            /\ saved[1].save_all = TRUE
            /\ saved[1].duration = <<durations>>
            /\ Len(durations) >= 1
            /\ saved[1].loop = (IF file.loop = <<>> THEN <<0>> ELSE file.loop)
            /\ saved[1].disposal = <<2>>

C8_Witness ==
  /\ saved # <<>>
  /\ Len(frames) = 3
  /\ saved[1].save_all = TRUE
  /\ saved[1].duration = << <<80, 120, 80>> >>
  /\ saved[1].loop = <<2>>

\* C9: an opened file that is not a GIF gets exactly one warning line, as the
\* first line printed; the function then returns False only after a failure
\* and, with no failure, returns True with the save call made.
C9_NotGifIsNoError ==
  (file.format # "GIF" /\ img # <<>> /\ pc # "format") =>
    /\ Cardinality(Lines("warning")) = 1
    /\ out[1] = WarnLine(InputPath, <<file.format>>)
    /\ result = <<FALSE>> => Failures # {}
    /\ (pc \in {"returned", "exited"} /\ Failures = {}) =>
         (result = <<TRUE>> /\ Len(saved) = 1 /\ frames # <<>>)

C9_Witness ==
  /\ file.format = "PNG"
  /\ result = <<TRUE>>
  /\ Cardinality(Lines("warning")) = 1
  /\ Len(frames) > 1

\* C10: with a threshold of 255 or more no pixel of any collected frame is
\* changed, with a negative threshold every pixel keeps r, g, b and gets
\* alpha 0, and with either the function returns False only after a failure
\* of a library call.
C10_ThresholdOutOfRange ==
  /\ threshold >= 255 => \A i \in 1 .. Len(frames) : frames[i] = loaded[i]
  /\ threshold < 0 =>
       \A i \in 1 .. Len(frames) : \A c \in Coords :
         LET p == loaded[i].px[c]
         IN  frames[i].px[c] = <<p[1], p[2], p[3], 0>>
  /\ (threshold >= 255 \/ threshold < 0) =>
       /\ result = <<FALSE>> =>
            \E k \in 1 .. Len(raised) : raised[k].kind = "OSError"
       /\ (pc = "returned" /\ Failures = {}) => result = <<TRUE>>

C10_Witness ==
  /\ threshold < 0
  /\ result = <<TRUE>>
  /\ \E c \in Coords : /\ loaded[1].px[c] = <<0, 0, 0, 255>>
                       /\ AllWritten[1].px[c] = <<0, 0, 0, 0>>

====
